---- MODULE Spec2Model ----
(***************************************************************************)
(* GamiSMS (src/app.py): a Flask application with a session-scoped         *)
(* onboarding wizard, a locale resolver and a nested-key translator.       *)
(*                                                                         *)
(* Five specifications share the variables below.                          *)
(*   Spec          the route handlers acting on one client's session       *)
(*   SpecLocale    before_request / get_locale as a function of the        *)
(*                 session cookie and the Accept-Language header           *)
(*   SpecTranslate translate() as a function of the resource files, the    *)
(*                 request and its arguments                               *)
(*   SpecRoutes    the route handlers of Spec and a call of translate()    *)
(*   SpecCatalog   get_translations() called by the threads of one process *)
(*                 statement by statement                                  *)
(* Strings that the code takes apart (dotted keys, format templates) are   *)
(* sequences of one-character strings; strings it only compares are TLA+   *)
(* strings.                                                                *)
(***************************************************************************)
EXTENDS Integers, Sequences, FiniteSets, TLC

VARIABLES
    session,          \* flask.session: a mapping, keys present only once set
    accept_languages, \* request.accept_languages of the request in progress
    g_locale,         \* flask.g.locale, set by before_request
    files,            \* translations/<lang>.json: a tree, or Missing
    TRANSLATIONS,     \* the module-level catalog cache (app.py:39)
    call,             \* arguments of the translate() call in progress
    result,           \* what translate() returned or raised
    pc,               \* each thread's position in get_translations()
    loading,          \* each thread's local `translations` in load_translations()
    returned,         \* what get_translations() last returned to each thread
    loads,            \* how many times each thread has called load_translations()
    raced             \* whether a thread found the cache empty while another
                      \* was between that test and the assignment of app.py:44

vars == <<session, accept_languages, g_locale, files, TRANSLATIONS, call, result,
          pc, loading, returned, loads, raced>>

None == "None"

(***************************************************************************)
(* Python dict helpers.                                                    *)
(***************************************************************************)
EmptyDict == [x \in {} |-> x]

\* d.get(k, default)
Get(d, k, default) == IF k \in DOMAIN d THEN d[k] ELSE default

\* d[k] = v
Put(d, k, v) == [x \in DOMAIN d \cup {k} |-> IF x = k THEN v ELSE d[x]]

\* {**a, **b}
Merge(a, b) == [x \in DOMAIN a \cup DOMAIN b |-> IF x \in DOMAIN b THEN b[x] ELSE a[x]]

(***************************************************************************)
(* LANGUAGES.keys(), in the order the dict literal lists them.             *)
(***************************************************************************)
LanguageKeys == <<"en", "es", "ar", "fr", "sw", "uk", "so", "am">>

LANGUAGES == {LanguageKeys[i] : i \in DOMAIN LanguageKeys}

\* what a client can put in /set-language/<lang>: the known codes and others
Codes == LANGUAGES \cup {"xx", "EN"}

total_steps == 6

(***************************************************************************)
(* Bounds of the model.                                                    *)
(***************************************************************************)
MaxStepArg == 8
MaxCheckins == 2
MaxHeaderLen == 2
MaxKeyLen == 3

\* threads of the process serving requests
MaxThreads == 2

(***************************************************************************)
(* request.accept_languages: the parsed Accept-Language header, a list of  *)
(* (tag, quality) pairs.  A tag is its sequence of subtags, lower-cased    *)
(* ("fr-CA" is <<"fr", "ca">>, the wildcard is <<"*">>); a quality is in   *)
(* tenths.  The class behind it is werkzeug's LanguageAccept, whose        *)
(* best_match get_locale calls.                                            *)
(***************************************************************************)
Star == <<"*">>

Tags == {<<"fr">>, <<"ar", "eg">>, <<"xx">>, Star}

Qualities == {5, 10}

\* the (tag, quality) pairs a header is made of; q=0 refuses a language
Items == (Tags \X Qualities) \cup {<<<<"fr">>, 0>>}

RECURSIVE SeqsUpTo(_, _)
SeqsUpTo(S, n) ==
    IF n = 0 THEN {<<>>}
    ELSE LET shorter == SeqsUpTo(S, n - 1)
         IN  shorter \cup {Append(s, x) : s \in shorter, x \in S}

Headers == SeqsUpTo(Items, MaxHeaderLen)

\* Accept._specificity
specificity(value) == IF value = Star THEN 0 ELSE 1

\* the sort key of Accept.__init__, compared as Python compares tuples
SortKeyGE(x, y) ==
    \/ specificity(x[1]) > specificity(y[1])
    \/ specificity(x[1]) = specificity(y[1]) /\ x[2] >= y[2]

RECURSIVE InsertSorted(_, _)
InsertSorted(x, s) ==
    IF s = <<>> THEN <<x>>
    ELSE IF SortKeyGE(x, Head(s)) THEN <<x>> \o s
    ELSE <<Head(s)>> \o InsertSorted(x, Tail(s))

\* Accept.__init__: sorted(values, key=(specificity, quality), reverse=True),
\* a stable sort
RECURSIVE Accept(_)
Accept(values) ==
    IF values = <<>> THEN <<>>
    ELSE InsertSorted(Head(values), Accept(Tail(values)))

\* _value_matches: item == "*" or normalize(value) == normalize(item)
value_matches(value, item) == item = Star \/ value = item

\* Accept._best_single_match: the position in self of the first client item
\* that matches, 0 for None
RECURSIVE best_single_match(_, _, _)
best_single_match(self, match, i) ==
    IF i > Len(self) THEN 0
    ELSE IF value_matches(match, self[i][1]) THEN i
    ELSE best_single_match(self, match, i + 1)

\* the loop of Accept.best_match over the server's matches, from matches[i] on
RECURSIVE best_match_loop(_, _, _, _)
best_match_loop(self, matches, i, best) ==
    IF i > Len(matches) THEN best.result
    ELSE LET m == best_single_match(self, matches[i], 1)
             keep == best_match_loop(self, matches, i + 1, best)
         IN  IF m = 0 THEN keep
             ELSE LET quality == self[m][2]
                      spec == specificity(self[m][1])
                  IN  IF quality <= 0 \/ quality < best.quality THEN keep
                      ELSE IF quality > best.quality \/ spec > best.specificity
                      THEN best_match_loop(self, matches, i + 1,
                               [result |-> i, quality |-> quality, specificity |-> spec])
                      ELSE keep

\* Accept.best_match(matches): the position in matches of the result, 0 for None
Accept_best_match(self, matches) ==
    best_match_loop(self, matches, 1, [result |-> 0, quality |-> -1, specificity |-> -1])

\* the primary subtag of a tag: _locale_delim_re.split(tag, 1)[0]
primary(tag) == <<Head(tag)>>

\* LanguageAccept.best_match(matches): an exact match first, then the client's
\* primary tags against the matches, then the client's tags against the
\* matches' primary tags; None when all three fail
LanguageAccept_best_match(self, matches) ==
    LET exact == Accept_best_match(self, matches)
        fallback == Accept([i \in DOMAIN self |-> <<primary(self[i][1]), self[i][2]>>])
        byPrimary == Accept_best_match(fallback, matches)
        fallback_matches == [i \in DOMAIN matches |-> primary(matches[i])]
        ofPrimary == Accept_best_match(self, fallback_matches)
    IN  IF exact # 0 THEN matches[exact][1]
        ELSE IF byPrimary # 0 THEN matches[byPrimary][1]
        ELSE IF ofPrimary # 0
        THEN LET first == CHOOSE k \in DOMAIN matches :
                              /\ primary(matches[k]) = fallback_matches[ofPrimary]
                              /\ \A j \in 1..(k - 1) :
                                    primary(matches[j]) # fallback_matches[ofPrimary]
             IN  matches[first][1]
        ELSE None

\* request.accept_languages.best_match(LANGUAGES.keys()), per header
Negotiated ==
    [h \in Headers |->
        LanguageAccept_best_match(Accept(h), [i \in DOMAIN LanguageKeys |-> <<LanguageKeys[i]>>])]

\* get_locale with a fault: the header is asked first, the session pin second
get_locale_header_first(sess, header) ==
    IF Negotiated[header] # None THEN Negotiated[header]
    ELSE IF "language" \in DOMAIN sess THEN sess["language"]
    ELSE "en"

\* get_locale with a fault: without a pin the header's first candidate is
\* taken by its primary subtag, known or not
get_locale_first_candidate(sess, header) ==
    IF "language" \in DOMAIN sess THEN sess["language"]
    ELSE IF header # <<>> /\ header[1][1] # Star THEN Head(header[1][1]) ELSE "en"

\* get_locale(), app.py:47-51
get_locale(sess, header) ==
    IF "language" \in DOMAIN sess THEN sess["language"]
    ELSE IF Negotiated[header] # None THEN Negotiated[header] ELSE "en"

\* g.is_rtl, app.py:93
is_rtl(locale) == locale \in {"ar", "am"}

(***************************************************************************)
(* Translation trees.  A node is a JSON string or a JSON object; NoneNode  *)
(* is Python's None.  A string is its sequence of characters, an object a  *)
(* function from key segments to nodes.                                    *)
(***************************************************************************)
Str(chars) == [type |-> "str", val |-> chars]

Dict(d) == [type |-> "dict", val |-> d]

NoneNode == [type |-> "None", val |-> <<>>]

\* os.path.exists(filepath) is false
Missing == [type |-> "missing", val |-> <<>>]

\* Python truthiness of a node: '' , {} and None are falsy
truthy(node) ==
    CASE node.type = "str" -> node.val # <<>>
      [] node.type = "dict" -> DOMAIN node.val # {}
      [] OTHER -> FALSE

\* load_translations(), app.py:27-37
load_translations(fs) ==
    [lang \in LANGUAGES |->
        IF Get(fs, lang, Missing).type = "missing" THEN Dict(EmptyDict) ELSE fs[lang]]

\* get_translations(), app.py:41-45: the value it returns, which is also the
\* value of the global afterwards
get_translations(cache, fs) ==
    IF DOMAIN cache = {} THEN load_translations(fs) ELSE cache

\* the index of the first "." of s at or after position i, 0 when there is none
RECURSIVE find_dot(_, _)
find_dot(s, i) ==
    IF i > Len(s) THEN 0
    ELSE IF s[i] = "." THEN i
    ELSE find_dot(s, i + 1)

\* key.split('.')
RECURSIVE split(_)
split(s) ==
    LET dot == find_dot(s, 1)
    IN  IF dot = 0 THEN <<s>>
        ELSE <<SubSeq(s, 1, dot - 1)>> \o split(SubSeq(s, dot + 1, Len(s)))

\* the loop of app.py:62-67 from keys[i] on: None as soon as a segment is
\* missing or the current value is not a dict
RECURSIVE walk(_, _, _)
walk(value, keys, i) ==
    IF i > Len(keys) THEN value
    ELSE IF value.type = "dict"
    THEN walk(Get(value.val, keys[i], NoneNode), keys, i + 1)
    ELSE NoneNode

\* the loop of app.py:72-77 from keys[i] on: the key itself where the first
\* loop has None
RECURSIVE walk_default(_, _, _, _)
walk_default(value, keys, i, key) ==
    IF i > Len(keys) THEN value
    ELSE IF value.type = "dict"
    THEN walk_default(Get(value.val, keys[i], Str(key)), keys, i + 1, key)
    ELSE Str(key)

\* english_fallback with a fault: the English tree is asked for the whole key,
\* not walked segment by segment
english_fallback_flat(translations, keys, key) ==
    Get(Get(translations, "en", Dict(EmptyDict)).val, key, Str(key))

\* app.py:71-77
english_fallback(translations, keys, key) ==
    walk_default(Get(translations, "en", Dict(EmptyDict)), keys, 1, key)

(***************************************************************************)
(* str.format with keyword arguments only, as CPython's formatter does it  *)
(* for the characters drawn here (letters, ".", "{", "}"): literal text up *)
(* to a brace, "{{" and "}}" as escapes, a field up to the next "}", the   *)
(* field's first name looked up in kwargs and its ".attr" parts looked up  *)
(* on the str found.  It stops at the first error.                         *)
(***************************************************************************)
Formatted(chars) == [kind |-> "ok", val |-> chars]

Raised(error) == [kind |-> error, val |-> <<>>]

\* the index of the first brace of s at or after position i, 0 for none
RECURSIVE find_brace(_, _)
find_brace(s, i) ==
    IF i > Len(s) THEN 0
    ELSE IF s[i] \in {"{", "}"} THEN i
    ELSE find_brace(s, i + 1)

\* the replacement of one field
get_field(field, kwargs) ==
    LET parts == split(field)
        first == parts[1]
    IN  IF first = <<>> THEN Raised("IndexError")       \* "{}" is args[0]
        ELSE IF first \notin DOMAIN kwargs THEN Raised("KeyError")
        ELSE IF Len(parts) = 1 THEN Formatted(kwargs[first])
        ELSE IF parts[2] = <<>> THEN Raised("ValueError") \* empty attribute
        ELSE Raised("AttributeError")                    \* str has no such attribute

RECURSIVE format_from(_, _, _, _)
format_from(s, i, kwargs, out) ==
    IF i > Len(s) THEN Formatted(out)
    ELSE IF s[i] \notin {"{", "}"} THEN format_from(s, i + 1, kwargs, Append(out, s[i]))
    ELSE IF i = Len(s) THEN Raised("ValueError")         \* single brace at the end
    ELSE IF s[i + 1] = s[i] THEN format_from(s, i + 2, kwargs, Append(out, s[i]))
    ELSE IF s[i] = "}" THEN Raised("ValueError")         \* single "}"
    ELSE LET close == find_brace(s, i + 1)
         IN  IF close = 0 \/ s[close] = "{" THEN Raised("ValueError")
             ELSE LET r == get_field(SubSeq(s, i + 1, close - 1), kwargs)
                  IN  IF r.kind # "ok" THEN r
                      ELSE format_from(s, close + 1, kwargs, out \o r.val)

format(s, kwargs) == format_from(s, 1, kwargs, <<>>)

\* what a call returns or raises
Return(node) == [kind |-> "return", value |-> node]

Raise(error) == [kind |-> "raise", value |-> Str(error)]

\* format_value with a fault: a missing placeholder name blanks the value
format_value_blank_on_miss(value, kwargs) ==
    IF value.type = "str" /\ DOMAIN kwargs # {}
    THEN LET r == format(value.val, kwargs)
         IN  CASE r.kind = "ok" -> Return(Str(r.val))
               [] r.kind = "KeyError" -> Return(Str(<<>>))
               [] OTHER -> Raise(r.kind)
    ELSE Return(value)

\* app.py:80-84: only KeyError is caught
format_value(value, kwargs) ==
    IF value.type = "str" /\ DOMAIN kwargs # {}
    THEN LET r == format(value.val, kwargs)
         IN  CASE r.kind = "ok" -> Return(Str(r.val))
               [] r.kind = "KeyError" -> Return(value)
               [] OTHER -> Raise(r.kind)
    ELSE Return(value)

\* translate with a fault: the English tree is consulted whenever the active
\* tree's value is falsy, not only when it is None
translate_in_falsy_fallback(translations, lang, key, kwargs) ==
    LET keys == split(key)
        found == walk(Get(translations, lang, Dict(EmptyDict)), keys, 1)
        value == IF ~truthy(found) THEN english_fallback(translations, keys, key) ELSE found
        formatted == format_value(value, kwargs)
    IN  IF formatted.kind = "raise" THEN formatted
        ELSE IF truthy(formatted.value) THEN formatted
        ELSE Return(Str(key))

\* translate with a fault: a walk that ends on an object counts as not found
translate_in_leaf_expected(translations, lang, key, kwargs) ==
    LET keys == split(key)
        found == walk(Get(translations, lang, Dict(EmptyDict)), keys, 1)
        value == IF found.type # "str" THEN english_fallback(translations, keys, key) ELSE found
        formatted == format_value(value, kwargs)
    IN  IF formatted.kind = "raise" THEN formatted
        ELSE IF truthy(formatted.value) THEN formatted
        ELSE Return(Str(key))

\* translate, app.py:53-86, given what get_translations() and
\* get_locale() returned
translate_in(translations, lang, key, kwargs) ==
    LET keys == split(key)
        found == walk(Get(translations, lang, Dict(EmptyDict)), keys, 1)
        value == IF found.type = "None"
                 THEN english_fallback(translations, keys, key)
                 ELSE found
        formatted == format_value(value, kwargs)
    IN  IF formatted.kind = "raise" THEN formatted
        ELSE IF truthy(formatted.value) THEN formatted
        ELSE Return(Str(key))

(***************************************************************************)
(* Request inputs of the session routes.                                   *)
(***************************************************************************)
\* request.form.to_dict() and request.json of save_profile: string mappings
ProfileKeys == {"age", "name"}

ProfileValues == {"34", "Amara"}

Profiles == UNION {[S -> ProfileValues] : S \in SUBSET ProfileKeys}

\* request.json of health_checkin
Entries == {"entryA", "entryB"}

\* <int:step> matches any unsigned decimal
StepArgs == 0..MaxStepArg

\* the routes that only render a template
Pages == {"index", "dashboard", "health_info", "appointments", "medications",
          "emergency", "resources"}

NoCall == [key |-> <<>>, kwargs |-> EmptyDict]

NoResult == [kind |-> "none", value |-> <<>>]

\* the variables the session routes never touch
RequestVars == <<accept_languages, g_locale>>

\* the threads of the process (the server of app.run is threaded)
Threads == 1..MaxThreads

NotReturned == [type |-> "NotReturned"]

WorkerVars == <<pc, loading, returned, loads, raced>>

\* no thread is inside get_translations()
InitWorkers ==
    /\ pc = [t \in Threads |-> "idle"]
    /\ loading = [t \in Threads |-> EmptyDict]
    /\ returned = [t \in Threads |-> NotReturned]
    /\ loads = [t \in Threads |-> 0]
    /\ raced = FALSE

TranslateVars == <<files, TRANSLATIONS, call, result, WorkerVars>>

(***************************************************************************)
(* The routes, app.py:105-186.  What a route returns (a redirect, a        *)
(* rendered template, a JSON acknowledgement) is not state: it depends on  *)
(* the request alone and is given by the _response operators.  None of     *)
(* the routes below has a raising path for the inputs drawn here.          *)
(***************************************************************************)
\* index, dashboard and the dashboard's sub-pages: they read the session and
\* render, and store nothing
page(route) ==
    /\ route \in Pages
    /\ UNCHANGED <<session, RequestVars, TranslateVars>>

\* set_language with a fault: the code is stored without the membership test
set_language_unchecked(lang) ==
    /\ session' = Put(session, "language", lang)
    /\ UNCHANGED <<RequestVars, TranslateVars>>

\* set_language with a fault: an unknown code pins the default language
set_language_or_default(lang) ==
    /\ session' = Put(session, "language", IF lang \in LANGUAGES THEN lang ELSE "en")
    /\ UNCHANGED <<RequestVars, TranslateVars>>

\* /set-language/<lang>
set_language(lang) ==
    /\ session' = IF lang \in LANGUAGES THEN Put(session, "language", lang) ELSE session
    /\ UNCHANGED <<RequestVars, TranslateVars>>

\* onboarding with a fault: starting over also clears the completion flag
onboarding_reset ==
    /\ session' = Put(Put(session, "onboarding_step", 1), "onboarding_completed", FALSE)
    /\ UNCHANGED <<RequestVars, TranslateVars>>

\* /onboarding
onboarding ==
    /\ session' = Put(session, "onboarding_step", 1)
    /\ UNCHANGED <<RequestVars, TranslateVars>>

\* onboarding_step with a fault: the upper end of the range is not tested
onboarding_step_no_upper(step) ==
    /\ session' = IF step < 1 THEN session ELSE Put(session, "onboarding_step", step)
    /\ UNCHANGED <<RequestVars, TranslateVars>>

\* onboarding_step with a fault: a step out of range is clamped to 1 and
\* stored in the same request
onboarding_step_clamp(step) ==
    /\ session' = Put(session, "onboarding_step",
                      IF step < 1 \/ step > total_steps THEN 1 ELSE step)
    /\ UNCHANGED <<RequestVars, TranslateVars>>

\* /onboarding/<int:step>
onboarding_step(step) ==
    /\ session' = IF step < 1 \/ step > total_steps
                  THEN session
                  ELSE Put(session, "onboarding_step", step)
    /\ UNCHANGED <<RequestVars, TranslateVars>>

\* redirect(url_for(endpoint, step=step))
redirect(endpoint, step) == [kind |-> "redirect", endpoint |-> endpoint, step |-> step]

\* render_template(template, ...)
render_template(template) == [kind |-> "render", template |-> template]

\* jsonify({'success': True})
jsonify_success == [kind |-> "json", success |-> TRUE]

\* what /onboarding/<int:step> returns
onboarding_step_response(step) ==
    IF step < 1 \/ step > total_steps
    THEN redirect("onboarding_step", 1)
    ELSE render_template("onboarding")

\* onboarding_complete with a fault: finishing also rewinds the stored step
onboarding_complete_rewinds(data) ==
    /\ session' = Put(Put(Put(session, "user_profile", data), "onboarding_completed", TRUE),
                      "onboarding_step", 1)
    /\ UNCHANGED <<RequestVars, TranslateVars>>

\* POST /onboarding/complete
onboarding_complete(data) ==
    /\ session' = Put(Put(session, "user_profile", data), "onboarding_completed", TRUE)
    /\ UNCHANGED <<RequestVars, TranslateVars>>

\* save_profile with a fault: the request's mapping replaces the stored one
save_profile_replace(data) ==
    /\ session' = Put(session, "user_profile", data)
    /\ UNCHANGED <<RequestVars, TranslateVars>>

\* POST /api/save-profile
save_profile(data) ==
    /\ session' = Put(session, "user_profile",
                      Merge(Get(session, "user_profile", EmptyDict), data))
    /\ UNCHANGED <<RequestVars, TranslateVars>>

\* what /api/save-profile returns
save_profile_response(data) == jsonify_success

\* health_checkin with a fault: the newest entry is put first
health_checkin_prepend(data) ==
    /\ Len(Get(session, "health_checkins", <<>>)) < MaxCheckins
    /\ session' = Put(session, "health_checkins",
                      <<data>> \o Get(session, "health_checkins", <<>>))
    /\ UNCHANGED <<RequestVars, TranslateVars>>

\* POST /api/health-checkin; the model stops appending at MaxCheckins
health_checkin(data) ==
    /\ Len(Get(session, "health_checkins", <<>>)) < MaxCheckins
    /\ session' = Put(session, "health_checkins",
                      Append(Get(session, "health_checkins", <<>>), data))
    /\ UNCHANGED <<RequestVars, TranslateVars>>

\* what /api/health-checkin returns
health_checkin_response(data) == jsonify_success

\* a new client: an empty session, no request made yet
Init ==
    /\ session = EmptyDict
    /\ accept_languages = <<>>
    /\ g_locale = None
    /\ files = EmptyDict
    /\ TRANSLATIONS = EmptyDict
    /\ call = NoCall
    /\ result = NoResult
    /\ InitWorkers

Next ==
    \/ \E route \in Pages : page(route)
    \/ \E lang \in Codes : set_language(lang)
    \/ onboarding
    \/ \E step \in StepArgs : onboarding_step(step)
    \/ \E data \in Profiles : onboarding_complete(data)
    \/ \E data \in Profiles : save_profile(data)
    \/ \E data \in Entries : health_checkin(data)

Spec == Init /\ [][Next]_vars

(***************************************************************************)
(* SpecLocale: one request reaching before_request.  The session is the    *)
(* client's cookie: whatever a cookie signed with app.secret_key holds,    *)
(* written by set_language of this deployment or of one with another       *)
(* LANGUAGES, or by anyone who has the key (its default is in app.py:12).  *)
(***************************************************************************)
CookieSessions == {EmptyDict} \cup {[k \in {"language"} |-> code] : code \in Codes}

InitLocale ==
    /\ session \in CookieSessions
    /\ accept_languages \in Headers
    /\ g_locale = None
    /\ files = EmptyDict
    /\ TRANSLATIONS = EmptyDict
    /\ call = NoCall
    /\ result = NoResult
    /\ InitWorkers

\* before_request(), app.py:89-93
before_request ==
    /\ g_locale = None
    /\ g_locale' = get_locale(session, accept_languages)
    /\ UNCHANGED <<session, accept_languages, TranslateVars>>

NextLocale == before_request

SpecLocale == InitLocale /\ [][NextLocale]_vars

(***************************************************************************)
(* SpecTranslate: one call of translate() in a fresh process.  The         *)
(* resource files, the session's language and the call's arguments are     *)
(* drawn from the sets below.                                              *)
(***************************************************************************)
\* the characters of keys
KeyChars == {"a", ".", "{", "}"}

TranslationKeys == SeqsUpTo(KeyChars, MaxKeyLen)

\* leaf strings of the resource files
Leaves == {<<>>, <<"{", "a", "}", "{", "b", "}">>}

\* objects nested under the top-level key "a"
SubTrees == {Dict(EmptyDict)} \cup {Dict([k \in {<<"a">>} |-> Str(leaf)]) : leaf \in Leaves}

\* the documents a resource file can hold
Trees ==
    {Dict(EmptyDict)} \cup
    {Dict([k \in {<<"a">>} |-> node]) : node \in {Str(leaf) : leaf \in Leaves} \cup SubTrees}

\* en.json and fr.json exist, and so does xx.json, a file for a code that
\* LANGUAGES does not have; the other files do not
FileSets ==
    {[lang \in {"en", "fr", "xx"} |-> IF lang = "fr" THEN fr ELSE en] : en \in Trees, fr \in Trees}

\* keyword arguments of the call
Kwargs ==
    { EmptyDict,
      [n \in {<<"a">>} |-> <<"b">>],
      [n \in {<<"b">>} |-> <<"a">>],
      [n \in {<<"a">>, <<"b">>} |-> IF n = <<"a">> THEN <<"b">> ELSE <<"a">>],
      [n \in {<<"a">>, <<"b">>} |-> <<>>] }

\* the sessions of the calls: no pin, or a pin set_language has stored
TranslateSessions == {EmptyDict} \cup {[k \in {"language"} |-> code] : code \in {"fr", "ar"}}

InitTranslate ==
    /\ session \in TranslateSessions
    /\ accept_languages = <<>>
    /\ g_locale = None
    /\ files \in FileSets
    /\ TRANSLATIONS = EmptyDict
    /\ call \in [key : TranslationKeys, kwargs : Kwargs]
    /\ result = NoResult
    /\ InitWorkers

\* translate(call.key, **call.kwargs), app.py:53-86
translate ==
    /\ result = NoResult
    /\ TRANSLATIONS' = get_translations(TRANSLATIONS, files)
    /\ result' = translate_in(TRANSLATIONS', get_locale(session, accept_languages),
                              call.key, call.kwargs)
    /\ UNCHANGED <<session, RequestVars, files, call, WorkerVars>>

NextTranslate == translate

SpecTranslate == InitTranslate /\ [][NextTranslate]_vars

(***************************************************************************)
(* SpecRoutes: the routes of Spec together with translate(), which the     *)
(* templates of the rendering routes call; a session sees one call, of the *)
(* empty key, at any moment of its life.                                   *)
(***************************************************************************)
NextRoutes == Next \/ translate

SpecRoutes == Init /\ [][NextRoutes]_vars

(***************************************************************************)
(* SpecCatalog: the threads of one process call get_translations(), each   *)
(* statement a step of its own (app.py:41-45 and the loop of app.py:30-36).*)
(* The interpreter switches threads between statements; the assignment of  *)
(* app.py:44 and the reads of the global are single steps.                 *)
(***************************************************************************)
\* the resource files of these runs: fr.json holds what en.json holds, or {}
CatalogFileSets == {fs \in FileSets : fs["fr"] \in {fs["en"], Dict(EmptyDict)}}

InitCatalog ==
    /\ session = EmptyDict
    /\ accept_languages = <<>>
    /\ g_locale = None
    /\ files \in CatalogFileSets
    /\ TRANSLATIONS = EmptyDict
    /\ call = NoCall
    /\ result = NoResult
    /\ InitWorkers

\* what get_translations() never touches
CatalogFrame == <<session, RequestVars, files, call, result>>

\* a request served by thread t calls get_translations(), app.py:41
get_translations_call(t) ==
    /\ pc[t] = "idle"
    /\ pc' = [pc EXCEPT ![t] = "test"]
    /\ UNCHANGED <<CatalogFrame, TRANSLATIONS, loading, returned, loads, raced>>

\* the test of app.py:43 with a fault: the cache is never consulted
get_translations_test_always(t) ==
    /\ pc[t] = "test"
    /\ pc' = [pc EXCEPT ![t] = "load"]
    /\ loading' = [loading EXCEPT ![t] = EmptyDict]
    /\ loads' = [loads EXCEPT ![t] = @ + 1]
    /\ raced' = (raced \/ \E u \in Threads \ {t} : pc[u] \in {"load", "store"})
    /\ UNCHANGED <<CatalogFrame, TRANSLATIONS, returned>>

\* `if not TRANSLATIONS:` (app.py:43); when the cache is empty the thread
\* enters load_translations() with a fresh local dict (app.py:29)
get_translations_test(t) ==
    /\ pc[t] = "test"
    /\ IF DOMAIN TRANSLATIONS = {}
       THEN /\ pc' = [pc EXCEPT ![t] = "load"]
            /\ loading' = [loading EXCEPT ![t] = EmptyDict]
            /\ loads' = [loads EXCEPT ![t] = @ + 1]
            /\ raced' = (raced \/ \E u \in Threads \ {t} : pc[u] \in {"load", "store"})
       ELSE /\ pc' = [pc EXCEPT ![t] = "return"]
            /\ UNCHANGED <<loading, loads, raced>>
    /\ UNCHANGED <<CatalogFrame, TRANSLATIONS, returned>>

\* the language of the next iteration of the loop of app.py:30
next_lang(t) == LanguageKeys[Cardinality(DOMAIN loading[t]) + 1]

\* the iteration with a fault: a missing file stores None
loaded_tree_or_none(lang) ==
    IF Get(files, lang, Missing).type = "missing" THEN NoneNode ELSE files[lang]

\* what the iteration stores for lang, app.py:32-36
loaded_tree(lang) ==
    IF Get(files, lang, Missing).type = "missing" THEN Dict(EmptyDict) ELSE files[lang]

\* one iteration with a fault: the entry is written into the global as well
load_translations_step_in_place(t) ==
    /\ pc[t] = "load"
    /\ loading' = [loading EXCEPT ![t] = Put(@, next_lang(t), loaded_tree(next_lang(t)))]
    /\ TRANSLATIONS' = Put(TRANSLATIONS, next_lang(t), loaded_tree(next_lang(t)))
    /\ pc' = [pc EXCEPT ![t] = IF next_lang(t) = LanguageKeys[Len(LanguageKeys)]
                                THEN "store" ELSE "load"]
    /\ UNCHANGED <<CatalogFrame, returned, loads, raced>>

\* one iteration of the loop of load_translations(), app.py:30-36
load_translations_step(t) ==
    /\ pc[t] = "load"
    /\ loading' = [loading EXCEPT ![t] = Put(@, next_lang(t), loaded_tree(next_lang(t)))]
    /\ pc' = [pc EXCEPT ![t] = IF next_lang(t) = LanguageKeys[Len(LanguageKeys)]
                                THEN "store" ELSE "load"]
    /\ UNCHANGED <<CatalogFrame, TRANSLATIONS, returned, loads, raced>>

\* `return translations` (app.py:37) and `TRANSLATIONS = ...` (app.py:44)
get_translations_assign(t) ==
    /\ pc[t] = "store"
    /\ TRANSLATIONS' = loading[t]
    /\ loading' = [loading EXCEPT ![t] = EmptyDict]
    /\ pc' = [pc EXCEPT ![t] = "return"]
    /\ UNCHANGED <<CatalogFrame, returned, loads, raced>>

\* `return TRANSLATIONS` (app.py:45): the global is read again
get_translations_return(t) ==
    /\ pc[t] = "return"
    /\ returned' = [returned EXCEPT ![t] = TRANSLATIONS]
    /\ pc' = [pc EXCEPT ![t] = "idle"]
    /\ UNCHANGED <<CatalogFrame, TRANSLATIONS, loading, loads, raced>>

NextCatalog ==
    \/ \E t \in Threads : get_translations_call(t)
    \/ \E t \in Threads : get_translations_test(t)
    \/ \E t \in Threads : load_translations_step(t)
    \/ \E t \in Threads : get_translations_assign(t)
    \/ \E t \in Threads : get_translations_return(t)

SpecCatalog == InitCatalog /\ [][NextCatalog]_vars

(***************************************************************************)
(* Properties of the session routes, checked under Spec.                   *)
(***************************************************************************)
Pinned(sess) == "language" \in DOMAIN sess

Completed(sess) == Get(sess, "onboarding_completed", FALSE) = TRUE

\* C1: complete(f) merges f into the profile already stored: afterwards the
\* profile holds every earlier key not in f with its earlier value and every
\* key of f with f's value, and completed is true.
C1_CompleteMerges ==
    [][\A f \in Profiles :
          onboarding_complete(f) =>
              /\ session'["user_profile"] = Merge(Get(session, "user_profile", EmptyDict), f)
              /\ Completed(session')]_vars

\* C2: in every reachable state the resolver returns one of the 8 known codes
\* for every Accept-Language header, and the value stored under 'language',
\* when present, is one of them.
C2_LocaleAlwaysKnown ==
    /\ \A h \in Headers : get_locale(session, h) \in LANGUAGES
    /\ Pinned(session) => session["language"] \in LANGUAGES

C2_Witness ==
    /\ Pinned(session) /\ session["language"] = "am"
    /\ get_locale(session, << <<<<"fr">>, 10>> >>) = "am"
    /\ "health_checkins" \in DOMAIN session

\* C4: the pin is sticky and wins over the header: while 'language' is L every
\* resolution returns L whatever the header, and a step of any route leaves
\* the pin in place with its value, unless it is set_language with a known
\* code.
C4_PinSticky ==
    /\ [](Pinned(session) => \A h \in Headers : get_locale(session, h) = session["language"])
    /\ [][Pinned(session) =>
            \/ \E L \in LANGUAGES : set_language(L)
            \/ Pinned(session') /\ session'["language"] = session["language"]]_vars

C4_Witness ==
    /\ Pinned(session) /\ session["language"] = "so"
    /\ get_locale(session, << <<<<"fr">>, 10>>, <<Star, 5>> >>) = "so"
    /\ Completed(session)
    /\ "onboarding_step" \in DOMAIN session
    /\ Len(Get(session, "health_checkins", <<>>)) = MaxCheckins

\* C5: set-locale with a code outside the known set changes nothing in the
\* session: a pin keeps its value, an absent pin stays absent.
C5_InvalidLocaleNoOp ==
    [][\A code \in Codes \ LANGUAGES : set_language(code) => session' = session]_vars

\* a pinned session with a profile, in which set-locale('xx') can be served
C5_Witness ==
    /\ Pinned(session) /\ session["language"] = "uk"
    /\ "user_profile" \in DOMAIN session
    /\ ENABLED set_language("xx")

\* C9: the stored onboarding step, when present, lies in [1, 6].
C9_StepInRange ==
    "onboarding_step" \in DOMAIN session => session["onboarding_step"] \in 1..total_steps

C9_Witness ==
    /\ "onboarding_step" \in DOMAIN session
    /\ session["onboarding_step"] = total_steps
    /\ Completed(session)

\* C10: once completed is true it stays true after every later operation.
C10_CompletedMonotone == [][Completed(session) => Completed(session')]_vars

C10_Witness ==
    /\ Completed(session)
    /\ Get(session, "onboarding_step", 0) = 1
    /\ Pinned(session)
    /\ "health_checkins" \in DOMAIN session

(***************************************************************************)
(* Properties of the resolver, checked under SpecLocale.                   *)
(***************************************************************************)
\* C3: a session locale outside the known set is ignored: the resolution is
\* that of the header alone (its best match among the known codes, 'en' when
\* nothing matches) and is never the bad value.
C3_BadPinIgnored ==
    (g_locale # None /\ Pinned(session) /\ session["language"] \notin LANGUAGES) =>
        /\ g_locale = get_locale(EmptyDict, accept_languages)
        /\ g_locale # session["language"]

(***************************************************************************)
(* Properties of translate, checked under SpecTranslate.                   *)
(***************************************************************************)
Returned == result.kind # "none"

ReturnedStr(chars) ==
    result.kind = "return" /\ result.value.type = "str" /\ result.value.val = chars

ActiveLocale == get_locale(session, accept_languages)

\* the segment-by-segment walk of a language's tree in the loaded catalog:
\* NoneNode is 'not found'
Lookup(lang) == walk(Get(load_translations(files), lang, Dict(EmptyDict)), split(call.key), 1)

NotFound(lang) == Lookup(lang).type = "None"

\* C6: a key absent from the active locale's tree and from the English tree
\* comes back verbatim, and no error is raised, whatever the params.
C6_MissReturnsKey ==
    (Returned /\ NotFound(ActiveLocale) /\ NotFound("en")) => ReturnedStr(call.key)

\* C7: when the walk of the active tree finds nothing and the walk of the
\* English tree ends on a non-empty string, translate returns that string
\* (params empty).
C7_EnglishFallback ==
    (/\ Returned
     /\ NotFound(ActiveLocale)
     /\ Lookup("en").type = "str" /\ Lookup("en").val # <<>>
     /\ DOMAIN call.kwargs = {})
    => ReturnedStr(Lookup("en").val)

C7_Witness ==
    /\ Returned
    /\ ActiveLocale = "fr"
    /\ call.key = <<"a", ".", "a">>
    /\ files["fr"] = Dict([k \in {<<"a">>} |-> Str(<<>>)])
    /\ DOMAIN call.kwargs = {}
    /\ ReturnedStr(<<"{", "a", "}", "{", "b", "}">>)

\* the value the lookup resolves to in the trees: the active tree's, else the
\* English tree's
Resolved == IF NotFound(ActiveLocale) THEN Lookup("en") ELSE Lookup(ActiveLocale)

\* the positions of t where a placeholder {name} starts, and its name
PlaceholderStarts(t) == {i \in DOMAIN t : t[i] = "{"}

PlaceholderName(t, i) ==
    LET close == CHOOSE j \in (i + 1)..Len(t) : t[j] = "}" /\ \A k \in (i + 1)..(j - 1) : t[k] # "}"
    IN  SubSeq(t, i + 1, close - 1)

\* t is literal text and placeholders {name} with names of letters
IsTemplate(t) ==
    /\ \A i \in PlaceholderStarts(t) :
          /\ \E j \in (i + 1)..Len(t) : t[j] = "}"
          /\ PlaceholderName(t, i) # <<>>
          /\ \A k \in DOMAIN PlaceholderName(t, i) : PlaceholderName(t, i)[k] \in {"a", "b"}
    /\ \A j \in DOMAIN t :
          t[j] = "}" => \E i \in PlaceholderStarts(t) : i + Len(PlaceholderName(t, i)) + 1 = j

PlaceholderNames(t) == {PlaceholderName(t, i) : i \in PlaceholderStarts(t)}

\* t with every placeholder replaced by its value in params
RECURSIVE Expand(_, _)
Expand(t, params) ==
    IF t = <<>> THEN <<>>
    ELSE IF Head(t) = "{"
    THEN LET name == PlaceholderName(t, 1)
         IN  params[name] \o Expand(SubSeq(t, Len(name) + 3, Len(t)), params)
    ELSE <<Head(t)>> \o Expand(Tail(t), params)

\* the string the claim expects for template t
Interpolated(t, params) ==
    IF DOMAIN params # {} /\ PlaceholderNames(t) \subseteq DOMAIN params
    THEN Expand(t, params)
    ELSE t

\* C8 as stated: for a resolved non-empty string template, translate returns
\* the template with every placeholder replaced when params is non-empty and
\* names them all, and the template unchanged when a name is missing or
\* params is empty; it never raises.
C8_AsStated ==
    (Returned /\ Resolved.type = "str" /\ Resolved.val # <<>> /\ IsTemplate(Resolved.val))
    => ReturnedStr(Interpolated(Resolved.val, call.kwargs))

\* C8, amended: as stated, except that when the string so obtained is empty
\* translate returns the key.
C8_Interpolation ==
    (Returned /\ Resolved.type = "str" /\ IsTemplate(Resolved.val))
    => ReturnedStr(IF Interpolated(Resolved.val, call.kwargs) = <<>>
                   THEN call.key
                   ELSE Interpolated(Resolved.val, call.kwargs))

C8_Witness ==
    /\ Returned
    /\ Resolved.type = "str"
    /\ Resolved.val = <<"{", "a", "}", "{", "b", "}">>
    /\ DOMAIN call.kwargs = {<<"a">>, <<"b">>}
    /\ ReturnedStr(<<"b", "a">>)

(***************************************************************************)
(* Properties of the onboarding and profile routes, checked under Spec.    *)
(***************************************************************************)
\* the stored step, 0 when none is stored
StoredStep(sess) == Get(sess, "onboarding_step", 0)

\* what a step of goTo(s) does and answers
GoToOutcome(s) ==
    IF 1 <= s /\ s <= 6
    THEN /\ StoredStep(session') = s
         /\ onboarding_step_response(s).kind = "render"
    ELSE /\ session' = session
         /\ onboarding_step_response(s) = redirect("onboarding_step", 1)

\* C11: goTo(s) with 1 <= s <= 6 stores s as the step whatever the stored step
\* and the completion flag are; goTo(s) with s outside the range stores nothing
\* in that request and answers with a redirect to goTo(1), which is the first
\* case again: following the redirect stores 1.  In every reachable session
\* no step of goTo(s) has another outcome.
C11_GoToStoresOrRedirects ==
    \A s \in StepArgs : ~ENABLED (onboarding_step(s) /\ ~GoToOutcome(s))

\* step 3 is stored after completion and a request for a step out of range
\* can follow
C11_Witness ==
    /\ StoredStep(session) = 3
    /\ Completed(session)
    /\ ENABLED onboarding_step(MaxStepArg)

StoredProfile(sess) == Get(sess, "user_profile", EmptyDict)

\* what a step of saveProfile(p) does and answers
SaveProfileOutcome(p) ==
    /\ DOMAIN StoredProfile(session') = DOMAIN StoredProfile(session) \cup DOMAIN p
    /\ \A k \in DOMAIN p : StoredProfile(session')[k] = p[k]
    /\ \A k \in DOMAIN StoredProfile(session) \ DOMAIN p :
          StoredProfile(session')[k] = StoredProfile(session)[k]
    /\ Completed(session') = Completed(session)
    /\ save_profile_response(p) = [kind |-> "json", success |-> TRUE]

\* C12: saveProfile(partial) shallow-merges partial into the stored profile:
\* afterwards every key of partial maps to partial's value, every other key
\* stored before keeps its value, no other key appears, the completion flag is
\* as before and success is reported; so after complete(f), which leaves f
\* stored and completed true, saveProfile(p) yields the merge of f and p with
\* completed still true.  In every reachable session no step of
\* saveProfile(partial) has another outcome.
C12_SaveProfileMerges ==
    \A p \in Profiles : ~ENABLED (save_profile(p) /\ ~SaveProfileOutcome(p))

\* a completed session whose profile holds both keys, as after
\* complete({age: 34}) and saveProfile({name: Amara})
C12_Witness ==
    /\ Completed(session)
    /\ StoredProfile(session) = [k \in {"age", "name"} |-> IF k = "age" THEN "34" ELSE "Amara"]

StoredCheckins(sess) == Get(sess, "health_checkins", <<>>)

\* C13: the check-in list is append-only and order-preserving: recordCheckin(e)
\* leaves the earlier entries in place, puts e after them (an entry equal to an
\* earlier one included) and so lengthens the list by exactly one; a step of
\* any other operation leaves the list as it is.  The stored list is therefore
\* the entries in call order.
C13_CheckinsAppendOnly ==
    [][/\ \A e \in Entries :
             health_checkin(e) =>
                 /\ StoredCheckins(session') = StoredCheckins(session) \o <<e>>
                 /\ Len(StoredCheckins(session')) = Len(StoredCheckins(session)) + 1
       /\ \/ StoredCheckins(session') = StoredCheckins(session)
          \/ \E e \in Entries :
                /\ health_checkin(e)
                /\ SubSeq(StoredCheckins(session'), 1, Len(StoredCheckins(session)))
                      = StoredCheckins(session)]_vars

\* the same entry recorded twice, after the profile was saved
C13_Witness ==
    /\ Len(StoredCheckins(session)) >= 2
    /\ StoredCheckins(session)[1] = "entryB"
    /\ StoredCheckins(session)[2] = "entryB"
    /\ "user_profile" \in DOMAIN session

(***************************************************************************)
(* Properties of the catalog cache, checked under SpecCatalog.             *)
(***************************************************************************)
RECURSIVE LoadsUpTo(_)
\* the calls of load_translations() made by threads 1..n
LoadsUpTo(n) == IF n = 0 THEN 0 ELSE loads[n] + LoadsUpTo(n - 1)

TotalLoads == LoadsUpTo(MaxThreads)

HasReturned(t) == returned[t] # NotReturned

\* C14 as the claim states it: over any interleaving of accesses, concurrent
\* requests included, the resource load runs at most one time, and every
\* access returns the cached structure.
C14_AsStated ==
    /\ TotalLoads <= 1
    /\ \A t \in Threads : HasReturned(t) => returned[t] = TRANSLATIONS

\* C14: the load runs at most once over accesses that do not overlap, and at
\* most once per thread when first accesses overlap; a load is started only
\* by an access that finds the cache empty, so no access that starts after
\* the cache is populated reads the resources; once populated the cache keeps
\* its value, and every access returns the cached structure.
C14_OnceUnlessRaced ==
    /\ [](\A t \in Threads : loads[t] <= 1)
    /\ [](~raced => TotalLoads <= 1)
    /\ [](\A t \in Threads : HasReturned(t) => returned[t] = TRANSLATIONS)
    /\ [][/\ loads' # loads => TRANSLATIONS = EmptyDict
          /\ TRANSLATIONS # EmptyDict => TRANSLATIONS' = TRANSLATIONS]_vars

\* two first accesses overlapped, both loaded, and one has returned
C14_Witness ==
    /\ raced
    /\ TotalLoads = 2
    /\ \E t \in Threads : HasReturned(t) /\ pc[t] = "idle"

\* C16: racing first accesses are safe: whatever the interleaving, every
\* access returns the complete load of the static resources, never an empty
\* or partly filled mapping, and the cache, once written, holds that same
\* load whichever thread wrote last.
C16_RacingAccessesSafe ==
    /\ \A t \in Threads : HasReturned(t) => returned[t] = load_translations(files)
    /\ TRANSLATIONS # EmptyDict => TRANSLATIONS = load_translations(files)

\* every thread loaded in a race over a non-empty en.json, wrote the cache
\* and returned
C16_Witness ==
    /\ raced
    /\ \A t \in Threads : loads[t] = 1 /\ HasReturned(t) /\ pc[t] = "idle"
    /\ files["en"] # Dict(EmptyDict)
    /\ TRANSLATIONS = load_translations(files)

\* a thread has left the loop of load_translations()
Loaded(t) == pc[t] = "store"

\* C17: after a load the catalog's domain is exactly the known codes: each
\* has an entry, the entry of a code whose file is missing is the empty tree,
\* the entry of a code whose file exists is the file's document, and a file
\* for a code outside the set contributes nothing.
C17_DomainIsKnownCodes ==
    \A t \in Threads :
        Loaded(t) =>
            /\ DOMAIN loading[t] = {"en", "es", "ar", "fr", "sw", "uk", "so", "am"}
            /\ \A lang \in DOMAIN loading[t] :
                  loading[t][lang] = IF lang \in DOMAIN files THEN files[lang]
                                     ELSE [type |-> "dict", val |-> EmptyDict]

\* a load has finished where fr.json is not empty, es.json is missing and
\* xx.json exists
C17_Witness ==
    \E t \in Threads :
        /\ Loaded(t)
        /\ "xx" \in DOMAIN files /\ "es" \notin DOMAIN files
        /\ loading[t]["fr"] # Dict(EmptyDict)
        /\ loading[t]["es"] = Dict(EmptyDict)

(***************************************************************************)
(* Properties of the resolver without a pin, checked under SpecLocale.     *)
(***************************************************************************)
\* a candidate of the header that the client accepts (q > 0) and that stands
\* for the code: the code itself, a regional variant of it, or the wildcard
Offers(item, code) ==
    /\ item[2] > 0
    /\ \/ item[1] = Star
       \/ item[1] = <<code>>
       \/ <<Head(item[1])>> = <<code>>

NoCandidateMatches(header) ==
    \A i \in DOMAIN header : \A code \in LANGUAGES : ~Offers(header[i], code)

\* C15: with no pin the resolver returns 'en' when the header is empty or none
\* of its candidates matches a known code; otherwise it returns the header's
\* best match, a known code that a candidate of the header offers; and the
\* request that resolves the locale stores nothing in the session.
C15_HeaderOrDefault ==
    /\ []((g_locale # None /\ ~Pinned(session)) =>
            /\ accept_languages = <<>> => g_locale = "en"
            /\ NoCandidateMatches(accept_languages) => g_locale = "en"
            /\ ~NoCandidateMatches(accept_languages) =>
                  /\ g_locale \in LANGUAGES
                  /\ g_locale = Negotiated[accept_languages]
                  /\ \E i \in DOMAIN accept_languages : Offers(accept_languages[i], g_locale))
    /\ [][before_request => session' = session /\ Pinned(session') = Pinned(session)]_vars

\* "xx, ar-EG;q=0.5" without a pin resolved to ar, and no pin was stored
C15_Witness ==
    /\ ~Pinned(session)
    /\ accept_languages = << <<<<"xx">>, 10>>, <<<<"ar", "eg">>, 5>> >>
    /\ g_locale = "ar"

(***************************************************************************)
(* Properties of translate on non-string and empty values, checked under   *)
(* SpecTranslate.                                                          *)
(***************************************************************************)
EndsOnTree == Lookup(ActiveLocale).type = "dict"

ReturnedTree(tree) ==
    /\ result.kind = "return"
    /\ result.value.type = "dict"
    /\ result.value.val = tree.val

\* C18 as the claim states it: a walk of the active tree that ends on a nested
\* tree makes translate return that tree, whatever the tree.
C18_AsStated ==
    (Returned /\ EndsOnTree) => ReturnedTree(Lookup(ActiveLocale))

\* C18: when the walk of the active tree consumes every segment and ends on a
\* nested tree, no English fallback and no interpolation is applied whatever
\* the English tree and the params hold: translate returns that tree as it
\* is when the tree has entries, and the literal key when the tree is empty.
C18_TreeReturnedAsIs ==
    (Returned /\ EndsOnTree) =>
        IF Lookup(ActiveLocale).val # EmptyDict
        THEN ReturnedTree(Lookup(ActiveLocale))
        ELSE ReturnedStr(call.key)

\* translate('a', a='b') under fr, where fr.json nests a template under a and
\* en.json has a template at a: the nested tree came back
C18_Witness ==
    /\ Returned
    /\ ActiveLocale = "fr"
    /\ call.key = <<"a">>
    /\ files["fr"] = Dict([k \in {<<"a">>} |->
                           Dict([j \in {<<"a">>} |-> Str(<<"{", "a", "}", "{", "b", "}">>)])])
    /\ files["en"] = Dict([k \in {<<"a">>} |-> Str(<<"{", "a", "}", "{", "b", "}">>)])
    /\ DOMAIN call.kwargs # {}
    /\ result.value.type = "dict"

\* C19: a key that resolves in the active tree to the empty string makes
\* translate return the literal key: the empty leaf counts as found and the
\* English tree is not consulted, whatever it holds and whatever the params.
C19_EmptyLeafReturnsKey ==
    (/\ Returned
     /\ Lookup(ActiveLocale).type = "str"
     /\ Lookup(ActiveLocale).val = <<>>)
    => ReturnedStr(call.key)

\* translate('a') under fr, where fr.json has '' at a and en.json a template
C19_Witness ==
    /\ Returned
    /\ ActiveLocale = "fr"
    /\ call.key = <<"a">>
    /\ files["fr"] = Dict([k \in {<<"a">>} |-> Str(<<>>)])
    /\ files["en"] = Dict([k \in {<<"a">>} |-> Str(<<"{", "a", "}", "{", "b", "}">>)])
    /\ ReturnedStr(<<"a">>)

(***************************************************************************)
(* The frame of each command, checked under SpecRoutes.                    *)
(***************************************************************************)
\* the session keys of spec section 6
SessionKeys ==
    {"language", "onboarding_step", "onboarding_completed", "user_profile", "health_checkins"}

\* a step changes no session key outside keys: none appears, none
\* disappears, none gets another value
ChangesAtMost(keys) ==
    /\ DOMAIN session \subseteq SessionKeys /\ DOMAIN session' \subseteq SessionKeys
    /\ \A k \in SessionKeys \ keys :
          /\ k \in DOMAIN session' <=> k \in DOMAIN session
          /\ k \in DOMAIN session => session'[k] = session[k]

\* C20: each command changes only its own session keys: set-locale at most
\* 'language'; start and goTo at most 'onboarding_step'; complete only
\* 'user_profile' and 'onboarding_completed'; save-profile only
\* 'user_profile'; record-checkin only 'health_checkins'; the page routes and
\* translate none.  In every reachable state, no command has a step that
\* changes a key outside its own.
C20_CommandFrames ==
    /\ \A lang \in Codes : ~ENABLED (set_language(lang) /\ ~ChangesAtMost({"language"}))
    /\ ~ENABLED (onboarding /\ ~ChangesAtMost({"onboarding_step"}))
    /\ \A step \in StepArgs :
          ~ENABLED (onboarding_step(step) /\ ~ChangesAtMost({"onboarding_step"}))
    /\ \A data \in Profiles :
          ~ENABLED (/\ onboarding_complete(data)
                    /\ ~ChangesAtMost({"user_profile", "onboarding_completed"}))
    /\ \A data \in Profiles : ~ENABLED (save_profile(data) /\ ~ChangesAtMost({"user_profile"}))
    /\ \A data \in Entries :
          ~ENABLED (health_checkin(data) /\ ~ChangesAtMost({"health_checkins"}))
    /\ \A route \in Pages : ~ENABLED (page(route) /\ ~ChangesAtMost({}))
    /\ ~ENABLED (translate /\ ~ChangesAtMost({}))

\* every key is stored, step 4 has survived a completion, and translate has
\* been called in this session
C20_Witness ==
    /\ DOMAIN session = SessionKeys
    /\ StoredStep(session) = 4
    /\ Completed(session)
    /\ Returned

====
